---- MODULE Spec2Model ----
(***************************************************************************)
(* Model of package lruish (src/lruish.go): the ring-based cache engine    *)
(* `lruish` and the lock-guarded wrapper `SynchedLRU`.                     *)
(*                                                                         *)
(* Go pointers to lruElem are modelled as ids into a heap, so that the     *)
(* aliasing between the map `items` and the slice `ring` is kept: a write  *)
(* through one reference is seen through the other, and two elements with  *)
(* the same key are different objects.                                     *)
(***************************************************************************)
EXTENDS Integers, Sequences, FiniteSets, TLC

\* ------------------------------------------------------------------ bounds
\* largest capacity, and number of keys, of the engine under all payloads
MaxSize == 3
MaxKey == 3
\* largest capacity of the engine under one payload, where only places matter
MaxRingSize == 4
MaxHealSize == 3
\* longest run of consecutive Gets on one key that is counted
MaxRun == 3
\* goroutines calling the synchronized wrapper, and the sizes it is built with
NumThreads == 2
MaxSynchedSize == 1

Threads == 1..NumThreads

Keys == 1..MaxKey
\* The payloads: the program stores and returns a value and never looks into
\* it, so two of them tell an overwritten value from the one it replaced.
Values == {1, 2}
OneValue == 1
\* sizes handed to the constructor; 0 is the rejected one
Sizes == -1..MaxSize

\* the nil pointer / nil interface value
Nil == 0

VARIABLES
    cache,      \* the *lruish engine (or NoCache when construction failed)
    err,        \* the error returned by the constructor
    last,       \* the last call: [op, key, value, ret]
    pre,        \* the engine as it was when the last call started
    adds,       \* keys added so far, while the history is Adds of fresh keys
    run,        \* the current run of consecutive Gets on one key
    heal,       \* the Adds of fresh keys since the last Remove, where followed
    lock,       \* SynchedLRU.lock: the writer holding it and the readers holding it
    th          \* the goroutines calling the SynchedLRU: method, position, call depth

vars == <<cache, err, last, pre, adds, run, heal, lock, th>>

\* ------------------------------------------------------------------ heap
\* an id the heap has no object for
NoElem == [key |-> Nil, value |-> Nil, index |-> 0]

Slots(c) == 0..(c.size - 1)

\* the objects reachable from the engine
Live(c) ==
    ({c.ring[i] : i \in Slots(c)} \cup {c.items[k] : k \in DOMAIN c.items}) \ {Nil}

SetMin(S) == CHOOSE x \in S : \A y \in S : x <= y

\* &lruElem{...}: a fresh object, distinct from every reachable one
Alloc(c) == SetMin(DOMAIN c.heap \ Live(c))

\* Addresses are not observable in Go: the heap is kept up to renaming, each
\* reachable object named by the first place that refers to it (the ring slot
\* it is in, else the key it is under), and unreachable objects are dropped.
Rank(c, id) ==
    IF \E i \in Slots(c) : c.ring[i] = id
    THEN 1 + SetMin({i \in Slots(c) : c.ring[i] = id})
    ELSE c.size + SetMin({k \in DOMAIN c.items : c.items[k] = id})

Collect(c) ==
    LET live == Live(c)
        newId == [id \in live \cup {Nil} |-> IF id = Nil THEN Nil ELSE Rank(c, id)]
        named == {newId[id] : id \in live}
    IN  [c EXCEPT
            !.ring = [i \in Slots(c) |-> newId[c.ring[i]]],
            !.items = [k \in DOMAIN c.items |-> newId[c.items[k]]],
            !.heap = [n \in DOMAIN c.heap |->
                        IF n \in named
                        THEN c.heap[CHOOSE id \in live : newId[id] = n]
                        ELSE NoElem]]

\* every order in which ranging over the map can yield the keys
Orders(S) ==
    {s \in [1..Cardinality(S) -> S] : \A i, j \in DOMAIN s : i # j => s[i] # s[j]}

\* ------------------------------------------------------------------ engine
NoCache == [size |-> 0, head |-> 0, items |-> <<>>, ring |-> <<>>, heap |-> <<>>]

\* NewUnsynched that refuses the negative sizes only
NewUnsynchedAcceptsZero(size) ==
    IF size < 0
    THEN [c |-> NoCache, err |-> TRUE]
    ELSE [c |-> [size |-> size,
                 head |-> 0,
                 items |-> [k \in {} |-> Nil],
                 ring |-> [i \in 0..(size - 1) |-> Nil],
                 heap |-> [id \in 1..(size + MaxKey + 1) |-> NoElem]],
          err |-> FALSE]

NewUnsynched(size) ==
    IF size <= 0
    THEN [c |-> NoCache, err |-> TRUE]
    ELSE [c |-> [size |-> size,
                 head |-> 0,
                 items |-> [k \in {} |-> Nil],
                 ring |-> [i \in 0..(size - 1) |-> Nil],
                 heap |-> [id \in 1..(size + MaxKey + 1) |-> NoElem]],
          err |-> FALSE]

\* delete(c.items, key)
MapDelete(items, key) == [k \in (DOMAIN items) \ {key} |-> items[k]]

\* c.items[key] = ent
MapPut(items, key, ent) == (key :> ent) @@ items

\* Len (the name Len is taken by Sequences)
CacheLen(c) == Cardinality(DOMAIN c.items)

\* promote that moves the element straight to the head slot
promoteToHead(c, ent) ==
    LET curIndex == c.heap[ent].index
        newIndex == c.head
        heap1 == IF c.ring[newIndex] # Nil
                 THEN [c.heap EXCEPT ![c.ring[newIndex]].index = curIndex]
                 ELSE c.heap
        heap2 == [heap1 EXCEPT ![ent].index = newIndex]
    IN  [c EXCEPT
            !.heap = heap2,
            !.ring = [c.ring EXCEPT ![curIndex] = c.ring[newIndex],
                                    ![newIndex] = c.ring[curIndex]]]

\* promote that leaves the displaced element's recorded index as it was
promoteKeepDisplacedIndex(c, ent) ==
    LET curIndex == c.heap[ent].index
        diff == curIndex - c.head
        position == IF diff < 0 THEN diff + c.size ELSE diff
        newIndex == (c.head + (position \div 2)) % c.size
        heap2 == [c.heap EXCEPT ![ent].index = newIndex]
    IN  [c EXCEPT
            !.heap = heap2,
            !.ring = [c.ring EXCEPT ![curIndex] = c.ring[newIndex],
                                    ![newIndex] = c.ring[curIndex]]]

\* promote with the halved position rounded up instead of down
promoteRoundUp(c, ent) ==
    LET curIndex == c.heap[ent].index
        diff == curIndex - c.head
        position == IF diff < 0 THEN diff + c.size ELSE diff
        newIndex == (c.head + ((position + 1) \div 2)) % c.size
        heap1 == IF c.ring[newIndex] # Nil
                 THEN [c.heap EXCEPT ![c.ring[newIndex]].index = curIndex]
                 ELSE c.heap
        heap2 == [heap1 EXCEPT ![ent].index = newIndex]
    IN  [c EXCEPT
            !.heap = heap2,
            !.ring = [c.ring EXCEPT ![curIndex] = c.ring[newIndex],
                                    ![newIndex] = c.ring[curIndex]]]

promote(c, ent) ==
    LET curIndex == c.heap[ent].index
        diff == curIndex - c.head
        position == IF diff < 0 THEN diff + c.size ELSE diff
        newIndex == (c.head + (position \div 2)) % c.size
        heap1 == IF c.ring[newIndex] # Nil
                 THEN [c.heap EXCEPT ![c.ring[newIndex]].index = curIndex]
                 ELSE c.heap
        heap2 == [heap1 EXCEPT ![ent].index = newIndex]
    IN  [c EXCEPT
            !.heap = heap2,
            !.ring = [c.ring EXCEPT ![curIndex] = c.ring[newIndex],
                                    ![newIndex] = c.ring[curIndex]]]

Get(c, key) ==
    IF key \in DOMAIN c.items
    THEN LET ent == c.items[key]
             c1 == promote(c, ent)
         IN  [c |-> c1, ret |-> <<c1.heap[ent].value, TRUE>>]
    ELSE [c |-> c, ret |-> <<Nil, FALSE>>]

\* AddExisting that moves the head back, as an insertion does
AddExistingMovesHead(c, ent, value) ==
    LET c1 == promote(c, ent)
        h1 == c.head - 1
        head == IF h1 < 0 THEN h1 + c.size ELSE h1
    IN  [c |-> [c1 EXCEPT !.heap[ent].value = value, !.head = head],
         ret |-> <<FALSE>>]

\* AddExisting that reports an eviction, as an insertion does
AddExistingReportsEviction(c, ent, value) ==
    LET c1 == promote(c, ent)
    IN  [c |-> [c1 EXCEPT !.heap[ent].value = value], ret |-> <<TRUE>>]

\* AddExisting without the write of the new value
AddExistingKeepValue(c, ent, value) ==
    [c |-> promote(c, ent), ret |-> <<FALSE>>]

\* Add, the key is in the map: promote it and overwrite its value
AddExisting(c, ent, value) ==
    LET c1 == promote(c, ent)
    IN  [c |-> [c1 EXCEPT !.heap[ent].value = value], ret |-> <<FALSE>>]

\* evictTail without the delete
evictTailNone(c, tailIndex) == c.items

\* Add, the map after the element found at the tail slot has been deleted from it
evictTail(c, tailIndex) ==
    LET toDelete == c.ring[tailIndex]
    IN  IF toDelete # Nil
        THEN MapDelete(c.items, c.heap[toDelete].key)
        ELSE c.items

\* AddNew with the tail two slots behind the new head
AddNewEvictsTwoBehind(c, key, value) ==
    LET h1 == c.head - 1
        head == IF h1 < 0 THEN h1 + c.size ELSE h1
        tailIndex == (head - 2) % c.size
        items1 == evictTail(c, tailIndex)
        ent == Alloc(c)
    IN  [c |-> [c EXCEPT
                   !.head = head,
                   !.heap[ent] = [key |-> key, value |-> value, index |-> head],
                   !.items = MapPut(items1, key, ent),
                   !.ring[head] = ent],
         ret |-> <<TRUE>>]

\* AddNew that moves the head back by two slots
AddNewSkipsSlot(c, key, value) ==
    LET head == (c.head - 2) % c.size
        t1 == head - 1
        tailIndex == IF t1 < 0 THEN t1 + c.size ELSE t1
        items1 == evictTail(c, tailIndex)
        ent == Alloc(c)
    IN  [c |-> [c EXCEPT
                   !.head = head,
                   !.heap[ent] = [key |-> key, value |-> value, index |-> head],
                   !.items = MapPut(items1, key, ent),
                   !.ring[head] = ent],
         ret |-> <<TRUE>>]

\* Add, the key is not in the map: move the head back, evict, insert
AddNew(c, key, value) ==
    LET h1 == c.head - 1
        head == IF h1 < 0 THEN h1 + c.size ELSE h1
        t1 == head - 1
        tailIndex == IF t1 < 0 THEN t1 + c.size ELSE t1
        items1 == evictTail(c, tailIndex)
        ent == Alloc(c)
    IN  [c |-> [c EXCEPT
                   !.head = head,
                   !.heap[ent] = [key |-> key, value |-> value, index |-> head],
                   !.items = MapPut(items1, key, ent),
                   !.ring[head] = ent],
         ret |-> <<TRUE>>]

Add(c, key, value) ==
    IF key \in DOMAIN c.items
    THEN AddExisting(c, c.items[key], value)
    ELSE AddNew(c, key, value)

Contains(c, key) == [c |-> c, ret |-> <<key \in DOMAIN c.items>>]

\* Peek that promotes the entry, as Get does
PeekPromoting(c, key) == Get(c, key)

Peek(c, key) ==
    IF key \in DOMAIN c.items
    THEN [c |-> c, ret |-> <<c.heap[c.items[key]].value, TRUE>>]
    ELSE [c |-> c, ret |-> <<Nil, FALSE>>]

\* ContainsOrAdd that looks the key up with Get, which promotes it
ContainsOrAddPromoting(c, key, value) ==
    IF Get(c, key).ret[2]
    THEN [c |-> Get(c, key).c, ret |-> <<TRUE, FALSE>>]
    ELSE LET r == Add(c, key, value)
         IN  [c |-> r.c, ret |-> <<FALSE, r.ret[1]>>]

ContainsOrAdd(c, key, value) ==
    IF Contains(c, key).ret[1]
    THEN [c |-> c, ret |-> <<TRUE, FALSE>>]
    ELSE LET r == Add(c, key, value)
         IN  [c |-> r.c, ret |-> <<FALSE, r.ret[1]>>]

\* Keys: the slice is filled in map iteration order, which Go leaves open
Keys_(c) == Orders(DOMAIN c.items)

\* Purge that leaves the head cursor where it is
PurgeKeepHead(c) ==
    [c |-> [c EXCEPT !.items = [k \in {} |-> Nil],
                     !.ring = [i \in Slots(c) |-> Nil]],
     ret |-> <<>>]

Purge(c) ==
    [c |-> [c EXCEPT !.items = [k \in {} |-> Nil],
                     !.ring = [i \in Slots(c) |-> Nil],
                     !.head = 0],
     ret |-> <<>>]

\* Remove that deletes the key and leaves its element in the ring
RemoveMapOnly(c, key) ==
    IF key \in DOMAIN c.items
    THEN [c |-> [c EXCEPT !.items = MapDelete(c.items, key)], ret |-> <<TRUE>>]
    ELSE [c |-> c, ret |-> <<FALSE>>]

\* Remove that empties the ring slot and leaves the key in the map
RemoveRingOnly(c, key) ==
    IF key \in DOMAIN c.items
    THEN [c |-> [c EXCEPT !.ring[c.heap[c.items[key]].index] = Nil], ret |-> <<TRUE>>]
    ELSE [c |-> c, ret |-> <<FALSE>>]

Remove(c, key) ==
    IF key \in DOMAIN c.items
    THEN LET ent == c.items[key]
         IN  [c |-> [c EXCEPT !.items = MapDelete(c.items, key),
                              !.ring[c.heap[ent].index] = Nil],
              ret |-> <<TRUE>>]
    ELSE [c |-> c, ret |-> <<FALSE>>]

\* ------------------------------------------------------------ observations
\* distance of a resident key's recorded slot from the head cursor
Distance(c, key) == (c.heap[c.items[key]].index - c.head) % c.size

\* ------------------------------------------------------------------ history
\* no call is in progress: the caller has taken the last result
NoCall == [op |-> "none", key |-> Nil, value |-> Nil, ret |-> <<>>]

\* the constructor has returned: the size it was called with, what it returned
Constructed(size, r) == [op |-> "New", key |-> Nil, value |-> size, ret |-> <<r.err>>]
NoRun == [key |-> Nil, d |-> 0, n |-> 0]
NoAdds == [pure |-> FALSE, keys |-> <<>>]

\* no Remove is followed: track tells whether the behaviour follows them at all
NoHeal(track) == [track |-> track, on |-> FALSE, hole |-> FALSE, keys |-> {}]

\* the engine after the call, and what is remembered of the call
Record(op, key, value, r) ==
    /\ cache' = Collect(r.c)
    /\ pre' = cache
    /\ last' = [op |-> op, key |-> key, value |-> value, ret |-> r.ret]
    /\ err' = err
    /\ adds' = IF /\ op = "Add"
                  /\ adds.pure
                  /\ key \notin {adds.keys[i] : i \in DOMAIN adds.keys}
               THEN [adds EXCEPT !.keys = Append(adds.keys, key)]
               ELSE NoAdds
    /\ heal' = IF ~heal.track THEN heal
               ELSE IF op = "Remove"
               THEN [heal EXCEPT !.on = TRUE, !.hole = r.ret[1], !.keys = {}]
               ELSE IF op \in {"Get", "Peek", "Contains"}
               THEN heal
               ELSE IF /\ op = "Add"
                       /\ heal.on
                       /\ key \notin DOMAIN cache.items
                       /\ key \notin heal.keys
               THEN [heal EXCEPT !.keys = heal.keys \cup {key}]
               ELSE NoHeal(TRUE)
    /\ run' = IF op = "Get" /\ key \in DOMAIN cache.items
              THEN IF run.key = key /\ run.n < MaxRun
                   THEN [run EXCEPT !.n = run.n + 1]
                   ELSE [key |-> key, d |-> Distance(cache, key), n |-> 1]
              ELSE NoRun

\* a call of the engine: the whole method runs, and the call, its result and
\* the engine it started from are kept until the caller takes the result.
\* A run of Gets on one key is followed call by call, so that its length is
\* counted; every other call starts once the last result has been taken.
Call(op, key, value, r) ==
    /\ ~err
    /\ \/ last = NoCall
       \/ op = "Get" /\ last.op = "Get" /\ last.key = key
    /\ Record(op, key, value, r)
    /\ UNCHANGED <<lock, th>>

\* ----------------------------------------------------------------- wrapper
\* sync.RWMutex: at most one writer, or any number of readers
Unlocked == [w |-> Nil, r |-> {}]

\* a goroutine outside the wrapper
Idle == [op |-> "none", pc |-> "idle", depth |-> 0]

\* the methods that take c.lock.Lock() and those that take c.lock.RLock()
WriteOps == {"Add", "Get", "ContainsOrAdd", "Remove"}
ReadOps == {"Contains", "Peek", "Keys", "Len"}

\* ------------------------------------------------------------------ actions
Init ==
    \E size \in Sizes :
        /\ cache = NewUnsynched(size).c
        /\ err = NewUnsynched(size).err
        /\ pre = NoCache
        /\ last = Constructed(size, NewUnsynched(size))
        /\ adds = [pure |-> TRUE, keys |-> <<>>]
        /\ run = NoRun
        /\ heal = NoHeal(FALSE)
        /\ lock = Unlocked
        /\ th = [t \in Threads |-> Idle]

DoAdd == \E k \in Keys, v \in Values : Call("Add", k, v, Add(cache, k, v))
DoGet == \E k \in Keys : Call("Get", k, Nil, Get(cache, k))
DoPeek == \E k \in Keys : Call("Peek", k, Nil, Peek(cache, k))
DoContains == \E k \in Keys : Call("Contains", k, Nil, Contains(cache, k))
DoContainsOrAdd ==
    \E k \in Keys, v \in Values :
        Call("ContainsOrAdd", k, v, ContainsOrAdd(cache, k, v))
DoRemove == \E k \in Keys : Call("Remove", k, Nil, Remove(cache, k))
DoPurge == Call("Purge", Nil, Nil, Purge(cache))
DoLen == Call("Len", Nil, Nil, [c |-> cache, ret |-> <<CacheLen(cache)>>])
DoKeys == \E keys \in Keys_(cache) : Call("Keys", Nil, Nil, [c |-> cache, ret |-> <<keys>>])

\* the caller takes the result
Return ==
    /\ last # NoCall
    /\ last' = NoCall
    /\ pre' = NoCache
    /\ run' = NoRun
    /\ UNCHANGED <<cache, err, adds, heal, lock, th>>

Next ==
    \/ DoAdd
    \/ DoGet
    \/ DoPeek
    \/ DoContains
    \/ DoContainsOrAdd
    \/ DoRemove
    \/ DoPurge
    \/ DoLen
    \/ DoKeys
    \/ Return

Spec == Init /\ [][Next]_vars

\* ------------------------------------------------- the engine, one payload
InitRing ==
    \E size \in 1..MaxRingSize :
        /\ cache = NewUnsynched(size).c
        /\ err = NewUnsynched(size).err
        /\ pre = NoCache
        /\ last = Constructed(size, NewUnsynched(size))
        /\ adds = [pure |-> TRUE, keys |-> <<>>]
        /\ run = NoRun
        /\ heal = NoHeal(FALSE)
        /\ lock = Unlocked
        /\ th = [t \in Threads |-> Idle]

RingAdd == \E k \in Keys : Call("Add", k, OneValue, Add(cache, k, OneValue))
RingContainsOrAdd ==
    \E k \in Keys : Call("ContainsOrAdd", k, OneValue, ContainsOrAdd(cache, k, OneValue))

NextRing ==
    \/ RingAdd
    \/ DoGet
    \/ DoPeek
    \/ DoContains
    \/ RingContainsOrAdd
    \/ DoRemove
    \/ DoPurge
    \/ DoLen
    \/ DoKeys
    \/ Return

SpecRing == InitRing /\ [][NextRing]_vars

\* --------------------- the engine, one payload, the Adds after a Remove kept
InitHeal ==
    \E size \in 1..MaxHealSize :
        /\ cache = NewUnsynched(size).c
        /\ err = NewUnsynched(size).err
        /\ pre = NoCache
        /\ last = Constructed(size, NewUnsynched(size))
        /\ adds = [pure |-> TRUE, keys |-> <<>>]
        /\ run = NoRun
        /\ heal = NoHeal(TRUE)
        /\ lock = Unlocked
        /\ th = [t \in Threads |-> Idle]

SpecHeal == InitHeal /\ [][NextRing]_vars

\* ------------------------------------------------------- wrapper actions
\* NewUnsyched, the constructor NewSynched calls: its declaration is not in
\* lruish.go; it is taken to be the engine's constructor
NewUnsyched(size) == NewUnsynched(size)

\* NewSynched: the engine NewUnsyched returns, behind an unlocked RWMutex
NewSynched(size) == NewUnsyched(size)

InitSynched ==
    \E size \in 0..MaxSynchedSize :
        /\ cache = NewSynched(size).c
        /\ err = NewSynched(size).err
        /\ pre = NoCache
        /\ last = NoCall
        /\ adds = [pure |-> TRUE, keys |-> <<>>]
        /\ run = NoRun
        /\ heal = NoHeal(FALSE)
        /\ lock = Unlocked
        /\ th = [t \in Threads |-> Idle]

\* a goroutine calls a method of the wrapper, whose first statement takes the
\* lock; which method it is shows when the lock is taken
Enter(t) ==
    /\ ~err
    /\ th[t].pc = "idle"
    /\ th' = [th EXCEPT ![t] = [op |-> "none", pc |-> "lock", depth |-> 1]]
    /\ UNCHANGED <<cache, err, last, pre, adds, run, heal, lock>>

\* Lock that waits for the writer only, and not for the readers
LockIgnoringReaders(t) ==
    /\ th[t].pc = "lock"
    /\ lock.w = Nil
    /\ lock' = [lock EXCEPT !.w = t]
    /\ \E op \in WriteOps :
          /\ th[t].op \in {"none", op}
          /\ th' = [th EXCEPT ![t].op = op, ![t].pc = "body"]
    /\ UNCHANGED <<cache, err, last, pre, adds, run, heal>>

\* c.lock.Lock() returns once no writer and no reader holds the lock
Lock(t) ==
    /\ th[t].pc = "lock"
    /\ lock.w = Nil
    /\ lock.r = {}
    /\ lock' = [lock EXCEPT !.w = t]
    /\ \E op \in WriteOps :
          /\ th[t].op \in {"none", op}
          /\ th' = [th EXCEPT ![t].op = op, ![t].pc = "body"]
    /\ UNCHANGED <<cache, err, last, pre, adds, run, heal>>

\* c.lock.RLock() returns once no writer holds the lock
RLock(t) ==
    /\ th[t].pc = "lock"
    /\ lock.w = Nil
    /\ lock' = [lock EXCEPT !.r = lock.r \cup {t}]
    /\ \E op \in ReadOps :
          /\ th[t].op \in {"none", op}
          /\ th' = [th EXCEPT ![t].op = op, ![t].pc = "body"]
    /\ UNCHANGED <<cache, err, last, pre, adds, run, heal>>

\* return c.lru.<method>(...): the engine runs, the deferred unlock is left
Inner(t, op, key, value, r) ==
    /\ th[t].pc = "body"
    /\ th[t].op = op
    /\ Record(op, key, value, r)
    /\ th' = [th EXCEPT ![t].pc = "unlock"]
    /\ UNCHANGED lock

SynchedAdd(t) == \E k \in Keys : Inner(t, "Add", k, OneValue, Add(cache, k, OneValue))
SynchedGet(t) == \E k \in Keys : Inner(t, "Get", k, Nil, Get(cache, k))
SynchedContains(t) == \E k \in Keys : Inner(t, "Contains", k, Nil, Contains(cache, k))
SynchedPeek(t) == \E k \in Keys : Inner(t, "Peek", k, Nil, Peek(cache, k))
SynchedKeys(t) ==
    \E keys \in Keys_(cache) : Inner(t, "Keys", Nil, Nil, [c |-> cache, ret |-> <<keys>>])
SynchedLen(t) == Inner(t, "Len", Nil, Nil, [c |-> cache, ret |-> <<CacheLen(cache)>>])
SynchedRemove(t) == \E k \in Keys : Inner(t, "Remove", k, Nil, Remove(cache, k))

\* return c.ContainsOrAdd(key, value): the wrapper's own method is entered
\* again, and its first statement takes the lock
SynchedContainsOrAdd(t) ==
    /\ th[t].pc = "body"
    /\ th[t].op = "ContainsOrAdd"
    /\ th' = [th EXCEPT ![t].pc = "lock", ![t].depth = th[t].depth + 1]
    /\ UNCHANGED <<cache, err, last, pre, adds, run, heal, lock>>

\* defer c.lock.Unlock() / defer c.lock.RUnlock(), and the method returns
Unlock(t) ==
    /\ th[t].pc = "unlock"
    /\ lock' = IF th[t].op \in WriteOps
               THEN [lock EXCEPT !.w = Nil]
               ELSE [lock EXCEPT !.r = lock.r \ {t}]
    /\ th' = [th EXCEPT ![t] = Idle]
    /\ last' = NoCall
    /\ pre' = NoCache
    /\ UNCHANGED <<cache, err, adds, run, heal>>

NextSynched ==
    \E t \in Threads :
        \/ Enter(t)
        \/ Lock(t)
        \/ RLock(t)
        \/ SynchedAdd(t)
        \/ SynchedGet(t)
        \/ SynchedContains(t)
        \/ SynchedPeek(t)
        \/ SynchedKeys(t)
        \/ SynchedLen(t)
        \/ SynchedContainsOrAdd(t)
        \/ SynchedRemove(t)
        \/ Unlock(t)

SpecSynched == InitSynched /\ [][NextSynched]_vars

\* ------------------------------------------------------------ observations
Resident(c) == DOMAIN c.items

\* the ring slots whose element is the one the map holds for its key
ResidentSlots(c) ==
    {i \in Slots(c) :
        /\ c.ring[i] # Nil
        /\ c.heap[c.ring[i]].key \in Resident(c)
        /\ c.items[c.heap[c.ring[i]].key] = c.ring[i]}

\* the keys the last call removed from the map
Dropped == Resident(pre) \ Resident(cache)

RECURSIVE FloorLog2(_)
FloorLog2(n) == IF n <= 1 THEN 0 ELSE 1 + FloorLog2(n \div 2)

\* the least e with 2^e >= n
CeilLog2(n) == IF n <= 1 THEN 0 ELSE 1 + FloorLog2(n - 1)

\* ------------------------------------------------------------------ claims

\* C1: in every reachable state, Len() is at most the capacity, and so is the
\* number of ring slots that hold a resident entry.
C1_Capacity ==
    ~err => /\ CacheLen(cache) <= cache.size
            /\ Cardinality(ResidentSlots(cache)) <= cache.size

\* an Add of a new key into a cache of capacity 2 or more that evicted a key
C1_Witness ==
    /\ last.op = "Add"
    /\ cache.size >= 2
    /\ last.key \notin Resident(pre)
    /\ Dropped # {}

\* C2: after Adds of n > c pairwise distinct keys and nothing else, Len() is
\* exactly c, the first key added is gone and the last one is contained.
C2_FillToCapacity ==
    (~err /\ adds.pure /\ Len(adds.keys) > cache.size) =>
        /\ CacheLen(cache) = cache.size
        /\ ~Contains(cache, adds.keys[1]).ret[1]
        /\ Contains(cache, adds.keys[Len(adds.keys)]).ret[1]

\* C3: capacity 2: Add(1) returns false, Add(2) returns true, and after Add(3)
\* key 1 is gone, keys 2 and 3 are contained and Len() is 2.
C3_CapacityTwo ==
    (~err /\ cache.size = 2 /\ adds.pure) =>
        /\ (adds.keys = <<1>> /\ last.op = "Add") => last.ret = <<FALSE>>
        /\ (adds.keys = <<1, 2>> /\ last.op = "Add") => last.ret = <<TRUE>>
        /\ adds.keys = <<1, 2, 3>> =>
              /\ ~Contains(cache, 1).ret[1]
              /\ Contains(cache, 2).ret[1]
              /\ Contains(cache, 3).ret[1]
              /\ CacheLen(cache) = 2

\* C4: an Add of a key that is not resident returns true exactly when the call
\* removed a resident key from the cache.
C4_AddReportsEviction ==
    (last.op = "Add" /\ last.key \notin Resident(pre)) =>
        (last.ret[1] <=> Dropped # {})

\* C5: right after Add(k, v), Peek(k) is (v, true) and Contains(k) holds; and a
\* Get, Peek or Contains, or an Add on another resident key, leaves what Peek
\* and Contains answer for every resident key as it was.
C5_InsertThenPeek ==
    /\ last.op = "Add" =>
          /\ Peek(cache, last.key).ret = <<last.value, TRUE>>
          /\ Contains(cache, last.key).ret[1]
    /\ (\/ last.op \in {"Get", "Peek", "Contains"}
        \/ last.op = "Add" /\ last.key \in Resident(pre)) =>
          \A k \in Resident(pre) :
              (last.op = "Add" => k # last.key) =>
                  /\ Peek(cache, k).ret = Peek(pre, k).ret
                  /\ Contains(cache, k).ret[1]

\* an Add on a resident key that moved it in a cache holding another key, whose
\* value was added earlier
C5_Witness ==
    /\ last.op = "Add"
    /\ last.key \in Resident(pre)
    /\ \E k \in Resident(pre) : k # last.key
    /\ Distance(cache, last.key) # Distance(pre, last.key)

\* C6: Add(k, v2) on a resident k returns false, keeps the set of resident
\* keys and Len(), keeps every other key's value, and Peek(k) is then (v2, true).
C6_UpdateNotEvict ==
    (last.op = "Add" /\ last.key \in Resident(pre)) =>
        /\ last.ret = <<FALSE>>
        /\ Resident(cache) = Resident(pre)
        /\ CacheLen(cache) = CacheLen(pre)
        /\ \A k \in Resident(pre) \ {last.key} :
              Peek(cache, k).ret = Peek(pre, k).ret
        /\ Peek(cache, last.key).ret = <<last.value, TRUE>>

\* an Add on a resident key with a new value, next to another resident key
C6_Witness ==
    /\ last.op = "Add"
    /\ last.key \in Resident(pre)
    /\ Peek(pre, last.key).ret[1] # last.value
    /\ CacheLen(pre) >= 2

\* C7 as stated: an entry at distance d >= 1 from the head is at distance 0
\* after ceil(log2(d)) consecutive Gets on its key.
C7_ConvergenceCeil ==
    (run.key # Nil /\ run.d >= 1 /\ run.n = CeilLog2(run.d)) =>
        Distance(cache, run.key) = 0

\* C7 amended: an entry at distance d >= 1 from the head is at distance 0
\* after floor(log2(d)) + 1 consecutive Gets on its key.
C7_ConvergenceFloor ==
    (run.key # Nil /\ run.d >= 1 /\ run.n = FloorLog2(run.d) + 1) =>
        Distance(cache, run.key) = 0

\* two Gets in a row have brought an entry from distance 2 to the head
C7_Witness ==
    /\ run.key # Nil
    /\ run.d = 2
    /\ run.n = 2
    /\ Distance(cache, run.key) = 0

\* C8: Peek and Contains, on a resident key or not, leave the map, the
\* entries, the ring and the head cursor as they were.
C8_PeekContainsFrame ==
    last.op \in {"Peek", "Contains"} => cache = pre

\* a Peek that found its key away from the head, where a Get would move it
C8_Witness ==
    /\ last.op = "Peek"
    /\ last.ret[2]
    /\ Distance(pre, last.key) >= 1

\* C9: Remove(k) on a resident key returns true, after which k is not
\* contained, Len() is one less and every other key is resident with its
\* value; on a key that is not resident it returns false and changes nothing.
C9_RemoveThenAbsent ==
    last.op = "Remove" =>
        IF last.key \in Resident(pre)
        THEN /\ last.ret = <<TRUE>>
             /\ ~Contains(cache, last.key).ret[1]
             /\ CacheLen(cache) = CacheLen(pre) - 1
             /\ \A k \in Resident(pre) \ {last.key} :
                   Peek(cache, k).ret = Peek(pre, k).ret
        ELSE /\ last.ret = <<FALSE>>
             /\ cache = pre

\* a Remove of one of two resident keys
C9_Witness ==
    /\ last.op = "Remove"
    /\ last.ret = <<TRUE>>
    /\ CacheLen(pre) >= 2

\* C10: a call of the wrapper's ContainsOrAdd takes the exclusive lock once and
\* hands over to the engine: no goroutine waits for the lock it holds itself,
\* and none is inside the wrapper's method a second time.
C10_ContainsOrAddReturns ==
    \A t \in Threads :
        /\ ~(th[t].pc = "lock" /\ lock.w = t)
        /\ th[t].depth <= 1

\* a goroutine is between taking the lock and releasing it
Holding(t) ==
    \/ th[t].pc \in {"body", "unlock"}
    \/ th[t].pc = "lock" /\ th[t].depth > 1

\* C11: two goroutines are inside the wrapper's critical section at once only
\* when both run an observational method (Contains, Peek, Keys, Len); the
\* engine runs a mutating method (Add, Get, Remove, ContainsOrAdd) under the
\* writer's lock with no other goroutine inside.
C11_MutualExclusion ==
    /\ \A t1, t2 \in Threads :
          (t1 # t2 /\ Holding(t1) /\ Holding(t2)) =>
              /\ th[t1].op \in {"Contains", "Peek", "Keys", "Len"}
              /\ th[t2].op \in {"Contains", "Peek", "Keys", "Len"}
    /\ \A t \in Threads :
          (Holding(t) /\ th[t].op \in {"Add", "Get", "Remove", "ContainsOrAdd"}) =>
              /\ lock.w = t
              /\ lock.r = {}
    /\ \A t \in Threads :
          (Holding(t) /\ th[t].op \in {"Contains", "Peek", "Keys", "Len"}) =>
              /\ lock.w = Nil
              /\ t \in lock.r

\* the engine has run a mutating method for one goroutine while another one
\* waits for the lock
C11_Witness ==
    \E t1, t2 \in Threads :
        /\ th[t1].pc = "unlock"
        /\ th[t1].op \in {"Add", "Get", "Remove"}
        /\ last.op = th[t1].op
        /\ th[t2].pc = "lock"

\* C12: the engine's ContainsOrAdd on a resident key returns (true, false) and
\* leaves the whole engine as it was (no promotion, no overwrite); on a
\* non-resident key it returns (false, e) and leaves the engine as
\* Add(key, value) leaves it, e being what that Add returns.
C12_ContainsOrAdd ==
    last.op = "ContainsOrAdd" =>
        IF last.key \in Resident(pre)
        THEN /\ last.ret = <<TRUE, FALSE>>
             /\ cache = pre
        ELSE /\ last.ret = <<FALSE, Add(pre, last.key, last.value).ret[1]>>
             /\ cache = Collect(Add(pre, last.key, last.value).c)
             /\ last.key \in Resident(cache)

\* ContainsOrAdd has found a key away from the head, holding another value
C12_Witness ==
    /\ last.op = "ContainsOrAdd"
    /\ last.key \in Resident(pre)
    /\ Distance(pre, last.key) >= 1
    /\ pre.heap[pre.items[last.key]].value # last.value
    /\ last.ret = <<TRUE, FALSE>>

C14_PurgeResets ==
    last.op = "Purge" =>
        /\ cache = NewUnsynched(pre.size).c
        /\ CacheLen(cache) = 0
        /\ cache.head = 0
        /\ \A i \in Slots(cache) : cache.ring[i] = Nil
        /\ \A k \in Resident(pre) : ~Contains(cache, k).ret[1]

\* Purge has run on an engine that held keys and whose head had moved
C14_Witness ==
    /\ last.op = "Purge"
    /\ CacheLen(pre) >= 1
    /\ pre.head # 0

\* C15: every key of the map has a recorded slot inside the ring, the ring
\* holds at that slot the very element the map holds for the key, and no two
\* resident keys share a slot.
C15_IndexRingAgreement ==
    ~err =>
        /\ \A k \in Resident(cache) :
              /\ cache.heap[cache.items[k]].index \in Slots(cache)
              /\ cache.ring[cache.heap[cache.items[k]].index] = cache.items[k]
              /\ cache.heap[cache.items[k]].key = k
        /\ \A k1, k2 \in Resident(cache) :
              k1 # k2 =>
                  cache.heap[cache.items[k1]].index # cache.heap[cache.items[k2]].index

\* a promotion has exchanged the slots of two resident entries
C15_Witness ==
    /\ last.op \in {"Get", "Add"}
    /\ last.key \in Resident(pre)
    /\ \E k \in Resident(pre) \ {last.key} :
          /\ Distance(cache, last.key) = Distance(pre, k)
          /\ Distance(cache, k) = Distance(pre, last.key)
          /\ Distance(pre, k) < Distance(pre, last.key)

\* what a ring slot holds: nothing, or the key and value of its element
SlotContent(c, i) ==
    IF c.ring[i] = Nil
    THEN <<>>
    ELSE <<c.heap[c.ring[i]].key, c.heap[c.ring[i]].value>>

\* the key a ring slot holds, Nil for an empty slot
SlotKey(c, i) == IF c.ring[i] = Nil THEN Nil ELSE c.heap[c.ring[i]].key

\* the README's example: an item at position 100 is accessed again and again
ReadmeCapacity == 128
ReadmeStart == 100

\* the keys lo..hi added to c, one after the other
RECURSIVE FillRange(_, _, _)
FillRange(c, lo, hi) ==
    IF lo > hi THEN c
    ELSE IF lo = hi THEN Add(c, lo, OneValue).c
    ELSE LET mid == (lo + hi) \div 2
             c1 == FillRange(c, lo, mid)
         IN  FillRange(c1, mid + 1, hi)

\* c after n Gets of key
RECURSIVE GetTimes(_, _, _)
GetTimes(c, key, n) == IF n = 0 THEN c ELSE Get(GetTimes(c, key, n - 1), key).c

\* the engine of capacity size after Adds of the keys 1..n, n < size: key k
\* is in slot size - k, the head is at the slot of key n
Filled(size, n) ==
    [size |-> size,
     head |-> (size - n) % size,
     items |-> [k \in 1..n |-> size - k + 1],
     ring |-> [i \in 0..(size - 1) |-> IF i >= size - n THEN i + 1 ELSE Nil],
     heap |-> [id \in 1..(size + MaxKey + 1) |->
                  IF id > size - n /\ id <= size
                  THEN [key |-> size - id + 1, value |-> OneValue, index |-> id - 1]
                  ELSE NoElem]]

\* Filled is what the Adds leave, on the rings small enough to try
FilledIsFillRange ==
    \A size \in 1..MaxRingSize : \A n \in 0..(size - 1) :
        Filled(size, n) = Collect(FillRange(NewUnsynched(size).c, 1, n))

\* the README's example: the engine at first, and after each of 7 Gets of key 1
ReadmeRun ==
    [n \in 1..8 |-> GetTimes(Filled(ReadmeCapacity, ReadmeStart + 1), 1, n - 1)]

\* the distances of key 1 from the head along the README's example
ReadmeDistances == [n \in 1..8 |-> Distance(ReadmeRun[n], 1)]

\* from engine b to engine a the entry of key has moved to the slot halfway
\* to the head and what was there to the entry's old slot; the other slots,
\* the resident keys, Len and the head are as they were
PromotionStep(b, a, key) ==
    LET cur == b.heap[b.items[key]].index
        p == (cur - b.head) % b.size
        new == (b.head + (p \div 2)) % b.size
    IN  /\ a.heap[a.items[key]].index = new
        /\ SlotKey(a, new) = key
        /\ cur # new => SlotContent(a, cur) = SlotContent(b, new)
        /\ \A i \in Slots(b) \ {cur, new} : SlotContent(a, i) = SlotContent(b, i)
        /\ Resident(a) = Resident(b)
        /\ CacheLen(a) = CacheLen(b)
        /\ a.head = b.head
        /\ Distance(a, key) <= Distance(b, key)
        /\ Distance(a, key) = p \div 2

\* each Get of the README's example is such a step
ReadmePromotions == \A n \in 1..7 : PromotionStep(ReadmeRun[n], ReadmeRun[n + 1], 1)

\* a Get or an Add of a resident key is such a step
PromotionMoves ==
    /\ (last.op \in {"Get", "Add"} /\ last.key \in Resident(pre)) =>
          PromotionStep(pre, cache, last.key)
    /\ ReadmePromotions

\* C16 as stated: a Get or an Add of a resident key promotes it as
\* PromotionMoves says and leaves all values unchanged; repeated Gets from
\* distance 100 give 100, 50, 25, 12, 6, 3, 1, 0.
C16_PromotionAllValues ==
    /\ PromotionMoves
    /\ (last.op \in {"Get", "Add"} /\ last.key \in Resident(pre)) =>
          \A k \in Resident(pre) :
              cache.heap[cache.items[k]].value = pre.heap[pre.items[k]].value
    /\ FilledIsFillRange
    /\ ReadmeDistances = <<100, 50, 25, 12, 6, 3, 1, 0>>

\* C16, amended: a Get or an Add of a resident key promotes it as
\* PromotionMoves says and leaves all values unchanged, but for the value of
\* the key an Add is given, which becomes the Add's value; repeated Gets from
\* distance 100 give 100, 50, 25, 12, 6, 3, 1, 0.
C16_Promotion ==
    /\ PromotionMoves
    /\ (last.op \in {"Get", "Add"} /\ last.key \in Resident(pre)) =>
          \A k \in Resident(pre) :
              cache.heap[cache.items[k]].value =
                  IF last.op = "Add" /\ k = last.key
                  THEN last.value
                  ELSE pre.heap[pre.items[k]].value
    /\ FilledIsFillRange
    /\ ReadmeDistances = <<100, 50, 25, 12, 6, 3, 1, 0>>

\* an Add has promoted a resident key past another one and changed its value
C16_Witness ==
    /\ last.op = "Add"
    /\ last.key \in Resident(pre)
    /\ Distance(pre, last.key) = 1
    /\ Distance(cache, last.key) = 0
    /\ CacheLen(pre) = 2
    /\ pre.heap[pre.items[last.key]].value # last.value

\* the last call was an Add, or a ContainsOrAdd, of a key that was not resident
Inserted ==
    /\ last.op \in {"Add", "ContainsOrAdd"}
    /\ last.key \notin Resident(pre)

\* the resident keys of c whose entry is in slot i
ResidentAt(c, i) == {k \in Resident(c) : c.ring[i] = c.items[k]}

\* the ring slot n positions behind the head cursor the last insertion set
BehindNewHead(n) == (pre.head - 1 - n) % pre.size

\* C17 as stated: an Add that inserts a key removes no resident key but the one
\* whose entry is in the slot two positions away from the new head.
C17_VictimTwoBehind ==
    Inserted =>
        \A k \in Dropped :
            \/ k \in ResidentAt(pre, BehindNewHead(2))
            \/ k \in ResidentAt(pre, (pre.head - 1 + 2) % pre.size)

\* C17, amended: an Add that inserts a key removes no resident key but the one
\* whose entry is in the slot one position behind the new head (two behind
\* the old one); it removes that key exactly when that slot holds a resident
\* entry; every other resident key keeps its residency, value and slot.
C17_VictimOneBehind ==
    Inserted =>
        /\ Dropped = ResidentAt(pre, BehindNewHead(1)) \ {last.key}
        /\ Dropped # {} <=> BehindNewHead(1) \in ResidentSlots(pre)
        /\ \A k \in Resident(pre) \ ResidentAt(pre, BehindNewHead(1)) :
              /\ k \in Resident(cache)
              /\ cache.heap[cache.items[k]].value = pre.heap[pre.items[k]].value
              /\ cache.heap[cache.items[k]].index = pre.heap[pre.items[k]].index

\* an Add has evicted the key one slot behind the new head while the slot two
\* behind it held a resident entry, which stayed
C17_Witness ==
    /\ Inserted
    /\ Dropped # {}
    /\ pre.size >= 4
    /\ ResidentAt(pre, BehindNewHead(2)) # {}
    /\ ResidentAt(pre, BehindNewHead(2)) \subseteq Resident(cache)

\* C18: the head changes only when an Add, called directly or by
\* ContainsOrAdd, inserts a key, to (head - 1) mod capacity, where the new
\* entry is written, and when Purge sets it to 0; every other call leaves it;
\* it is always inside the ring.
C18_HeadMovement ==
    /\ ~err => cache.head \in Slots(cache)
    /\ Inserted =>
          /\ cache.head = (pre.head - 1) % pre.size
          /\ SlotKey(cache, cache.head) = last.key
          /\ cache.ring[cache.head] = cache.items[last.key]
          /\ cache.heap[cache.items[last.key]].index = cache.head
    /\ last.op = "Purge" => cache.head = 0
    /\ (last.op \in {"Add", "ContainsOrAdd", "Get", "Peek", "Contains",
                     "Remove", "Keys", "Len"} /\ ~Inserted) =>
          cache.head = pre.head

\* an Add of a resident key away from the head has left the head where it
\* was, after insertions had moved the head
C18_Witness ==
    /\ last.op = "Add"
    /\ last.key \in Resident(pre)
    /\ Distance(pre, last.key) >= 1
    /\ pre.head # 0
    /\ cache.head = pre.head

\* the ring slots holding an element that is not the map's element for its key
StaleSlots(c) == {i \in Slots(c) : c.ring[i] # Nil} \ ResidentSlots(c)

\* C20: with capacity >= 2, an element left in the ring by an eviction is in
\* slot (head - 1) mod capacity only, no resident entry is ever in that slot,
\* a promotion neither starts from that slot nor exchanges with it, and the
\* key an Add removes from the map is the key of the map's own entry at the
\* tail, never a key inserted again after its eviction.
C20_StaleConfined ==
    /\ (~err /\ cache.size >= 2) =>
          /\ StaleSlots(cache) \subseteq {(cache.head - 1) % cache.size}
          /\ (cache.head - 1) % cache.size \notin ResidentSlots(cache)
    /\ (last.op \in {"Get", "Add"} /\ last.key \in Resident(pre) /\ pre.size >= 2) =>
          LET cur == pre.heap[pre.items[last.key]].index
              tail == (pre.head - 1) % pre.size
          IN  /\ cur # tail
              /\ (pre.head + (Distance(pre, last.key) \div 2)) % pre.size # tail
              /\ SlotContent(cache, tail) = SlotContent(pre, tail)
    /\ Inserted =>
          \A k \in Dropped : pre.ring[BehindNewHead(1)] = pre.items[k]

\* a promotion has moved an entry while an evicted element was in the slot
\* behind the head
C20_Witness ==
    /\ last.op = "Get"
    /\ last.key \in Resident(pre)
    /\ Distance(cache, last.key) < Distance(pre, last.key)
    /\ StaleSlots(pre) # {}
    /\ StaleSlots(cache) = StaleSlots(pre)

\* the empty ring slots
EmptySlots(c) == {i \in Slots(c) : c.ring[i] = Nil}

\* the distance of slot i from the head cursor
SlotDistance(c, i) == (i - c.head) % c.size

\* C19: an empty slot never gets closer to the head: a promotion into it moves
\* the hole to the promoted entry's old, farther slot, an insertion moves the
\* head one slot away from every hole it does not fill, and no other call but
\* Remove and Purge changes the empty slots; and once a Remove has been
\* followed by capacity Adds of pairwise distinct keys that were not resident,
\* with Gets, Peeks and Contains between them at most, no slot is empty.
C19_HolesHeal ==
    /\ (last.op \in {"Get", "Add"} /\ last.key \in Resident(pre)) =>
          LET cur == pre.heap[pre.items[last.key]].index
              new == cache.heap[cache.items[last.key]].index
          IN  /\ cache.head = pre.head
              /\ IF new \in EmptySlots(pre)
                 THEN /\ EmptySlots(cache) = (EmptySlots(pre) \ {new}) \cup {cur}
                      /\ SlotDistance(cache, cur) > SlotDistance(pre, new)
                 ELSE EmptySlots(cache) = EmptySlots(pre)
    /\ Inserted =>
          /\ EmptySlots(cache) = EmptySlots(pre) \ {cache.head}
          /\ \A i \in EmptySlots(cache) :
                SlotDistance(cache, i) = SlotDistance(pre, i) + 1
    /\ (last.op \in {"Get", "Peek", "Contains", "ContainsOrAdd", "Keys", "Len"}
            /\ ~Inserted /\ last.key \notin Resident(pre)) =>
          /\ EmptySlots(cache) = EmptySlots(pre)
          /\ cache.head = pre.head
    /\ (last.op \in {"Peek", "Contains", "ContainsOrAdd"}
            /\ last.key \in Resident(pre)) =>
          /\ EmptySlots(cache) = EmptySlots(pre)
          /\ cache.head = pre.head
    /\ (heal.on /\ Cardinality(heal.keys) >= cache.size) =>
          EmptySlots(cache) = {}

\* a Remove has emptied a slot of a ring of capacity 3 and three Adds of
\* distinct keys have followed it
C19_Witness ==
    /\ heal.on
    /\ heal.hole
    /\ cache.size = 3
    /\ Cardinality(heal.keys) = 3
    /\ last.op = "Add"

====
